---- MODULE Spec2Model ----
(***************************************************************************)
(* faktum_ai_tools.util: fill_null, build_where, upsert_dataframe,         *)
(* sync_dataframe_to_mssql and add_checksum_column.                        *)
(*                                                                         *)
(* Python values are encoded as strings so that values of different Python *)
(* types stay comparable: "1", "2" are numbers, "'NULL'" is the str NULL,  *)
(* "float:nan" a float NaN, "<NA>" pandas' pd.NA and "None" Python's None, *)
(* which the driver binds as SQL NULL and returns for SQL NULL.            *)
(*                                                                         *)
(* The database is the target table only: a bag of rows (no constraint is  *)
(* created or required by the code), each row a function from column name  *)
(* to value.  SQL comparisons are three-valued ("T", "F", "U").            *)
(* Any statement execution may raise (connectivity, rejected statement):   *)
(* the failing parameter group is chosen nondeterministically.             *)
(***************************************************************************)
EXTENDS Integers, Sequences, FiniteSets, Bags, TLC

VARIABLES
    table,      \* the committed content of the target table (a bag of rows)
    pc,         \* "idle" | "select" | "delete" | "returned": position of the caller/sync
    call,       \* the call in progress or just returned, with what it observed
    fill,       \* fill_null: the argument, and the tuple returned once called
    frame,      \* add_checksum_column: self (the DataFrame)
    chk         \* add_checksum_column: the call and its result

vars == <<table, pc, call, fill, frame, chk>>

-----------------------------------------------------------------------------
(* Python / SQL values *)

None == "None"
NaN == "float:nan"
NA == "<NA>"
StrNULL == "'NULL'"
Strnan == "'nan'"
Strnull == "'null'"

-----------------------------------------------------------------------------
(* Bounds of the model *)

MaxDf == 2          \* rows of the input DataFrame
MaxTableRows == 3   \* rows of the target table
MaxRepeat == 2      \* consecutive applications of the same upsert
MaxLen == 3         \* length of fill_null's argument
MaxChkRows == 1     \* rows of the DataFrame given to add_checksum_column

-----------------------------------------------------------------------------
(* fill_null, util.py 109-118 *)

\* bad with a fault: the strings compared without regard to case
bad_ignoring_case(val) ==
    IF val = NA THEN TRUE
    ELSE IF val = NaN THEN TRUE
    ELSE val \in {StrNULL, Strnull, NaN, Strnan}

bad(val) ==
    IF val = NA THEN TRUE                       \* isinstance(val, type(pd.NA))
    ELSE IF val = NaN THEN TRUE                 \* isinstance(val, float) and math.isnan(val)
    ELSE val \in {StrNULL, NaN, Strnan}         \* val in ['NULL', np.nan, 'nan']

fill_null(vals) ==
    [i \in 1..Len(vals) |-> IF ~bad(vals[i]) THEN vals[i] ELSE None]

-----------------------------------------------------------------------------
(* build_where, util.py 120-129: the filter as a sequence of conjuncts on    *)
(* [Target] columns instead of SQL text.                                     *)

\* build_where with a fault: with both columns given, only the start conjunct is built
build_where_start_only(start_date_filter_col, start_date_filter, end_date_filter_col, end_date_filter) ==
    IF start_date_filter_col # None
    THEN << [col |-> start_date_filter_col, op |-> ">=", val |-> start_date_filter] >>
    ELSE IF end_date_filter_col # None
    THEN << [col |-> end_date_filter_col, op |-> "<=", val |-> end_date_filter] >>
    ELSE << >>

build_where(start_date_filter_col, start_date_filter, end_date_filter_col, end_date_filter) ==
    IF start_date_filter_col # None /\ end_date_filter_col # None
    THEN << [col |-> start_date_filter_col, op |-> ">=", val |-> start_date_filter],
            [col |-> end_date_filter_col, op |-> "<=", val |-> end_date_filter] >>
    ELSE IF start_date_filter_col # None
    THEN << [col |-> start_date_filter_col, op |-> ">=", val |-> start_date_filter] >>
    ELSE IF end_date_filter_col # None
    THEN << [col |-> end_date_filter_col, op |-> "<=", val |-> end_date_filter] >>
    ELSE << >>

-----------------------------------------------------------------------------
(* SQL three-valued logic and comparisons, as the MERGE / SELECT / DELETE    *)
(* statements of util.py 188-200, 265-277, 286-290, 306-308 use them.        *)

Ord(v) == CASE v = "1" -> 1 [] v = "2" -> 2 [] v = "3" -> 3 [] OTHER -> 0

SqlEq(a, b) == IF a = None \/ b = None THEN "U" ELSE IF a = b THEN "T" ELSE "F"

SqlNe(a, b) == IF a = None \/ b = None THEN "U" ELSE IF a # b THEN "T" ELSE "F"

SqlGe(a, b) == IF a = None \/ b = None THEN "U" ELSE IF Ord(a) >= Ord(b) THEN "T" ELSE "F"

SqlLe(a, b) == IF a = None \/ b = None THEN "U" ELSE IF Ord(a) <= Ord(b) THEN "T" ELSE "F"

\* conjunction of a sequence of truth values (the empty conjunction is true)
And3(s) ==
    IF \E i \in DOMAIN s : s[i] = "F" THEN "F"
    ELSE IF \E i \in DOMAIN s : s[i] = "U" THEN "U" ELSE "T"

\* disjunction of a sequence of truth values
Or3(s) ==
    IF \E i \in DOMAIN s : s[i] = "T" THEN "T"
    ELSE IF \E i \in DOMAIN s : s[i] = "U" THEN "U" ELSE "F"

\* the filter conjuncts " AND [Target].[col] >= '..' ..." on target row t
WhereOn(where_filter, t) ==
    And3([i \in DOMAIN where_filter |->
            IF where_filter[i].op = ">="
            THEN SqlGe(t[where_filter[i].col], where_filter[i].val)
            ELSE SqlLe(t[where_filter[i].col], where_filter[i].val)])

-----------------------------------------------------------------------------
(* The payload: df.columns and primary_key_cols *)

cols_list == <<"k", "d">>

PrimaryKeyCols == <<"k">>

ColSet == {cols_list[i] : i \in DOMAIN cols_list}

ColPos(c) == CHOOSE i \in DOMAIN cols_list : cols_list[i] = c

\* [Source]: SELECT cols FROM (VALUES (?, ?)) AS s (cols), one parameter group
Source(params) == [c \in ColSet |-> params[ColPos(c)]]

\* the [Target] columns of a source row that matched no target row
NullRow == [c \in ColSet |-> None]

\* merge_on_str: [Target].[k]=[Source].[k] AND ...
MergeOn(primary_key_cols, t, src) ==
    And3([i \in DOMAIN primary_key_cols |->
            SqlEq(t[primary_key_cols[i]], src[primary_key_cols[i]])])

\* check_on_str: [Target].[c]<>[Source].[c] OR ...
CheckOn(t, src) ==
    Or3([i \in DOMAIN cols_list |-> SqlNe(t[cols_list[i]], src[cols_list[i]])])

\* UPDATE SET c = Source.c on the rows U of T: each of them becomes src
UpdateRows(T, U, src) ==
    LET kept == BagToSet(T) \ U
        n == BagCardinality([t \in U |-> T[t]])
    IN  IF U = {} THEN T
        ELSE [t \in kept \cup {src} |->
                (IF t \in kept THEN T[t] ELSE 0) + (IF t = src THEN n ELSE 0)]

\* DELETE of the rows D of T
DeleteRows(T, D) == [t \in BagToSet(T) \ D |-> T[t]]

\* One execution of the MERGE statement for one parameter group.  A source row
\* that matched no target row has no [Target] columns: the filter conjuncts of
\* WHEN NOT MATCHED then compare NULL, so a filtered statement inserts nothing.
MergeOne(T, params, primary_key_cols, where_filter) ==
    LET src == Source(params)
        matched(t) == MergeOn(primary_key_cols, t, src) = "T"
        upd(t) == /\ matched(t)
                  /\ And3(<<CheckOn(t, src), WhereOn(where_filter, t)>>) = "T"
    IN  IF \E t \in BagToSet(T) : matched(t)
        THEN \* WHEN MATCHED AND (check_on) where_filter THEN UPDATE SET c = Source.c
             UpdateRows(T, {t \in BagToSet(T) : upd(t)}, src)
        ELSE \* WHEN NOT MATCHED where_filter THEN INSERT (cols) VALUES (Source.cols)
             IF WhereOn(where_filter, NullRow) = "T"
             THEN T (+) SetToBag({src})
             ELSE T

\* conn.execute(cmd, params): the statement once per parameter group, in order,
\* for the first n groups
RECURSIVE ExecuteMany(_, _, _, _, _)
ExecuteMany(T, params, n, primary_key_cols, where_filter) ==
    IF n = 0 THEN T
    ELSE MergeOne(ExecuteMany(T, params, n - 1, primary_key_cols, where_filter),
                  params[n], primary_key_cols, where_filter)

\* EngineBegin with a fault: a connection that commits what it executed, exception or not
EngineBegin_no_rollback(committed, working, raised) == working

\* with engine.begin() as conn: commit on normal exit, roll back on exception
EngineBegin(committed, working, raised) ==
    IF raised THEN committed ELSE working

-----------------------------------------------------------------------------
(* upsert_dataframe, util.py 131-203.  failAt = 0: every parameter group    *)
(* executes; failAt = i > 0: the execution of group i raises.                *)

\* upsert_dataframe with a fault: the rows the input does not name are deleted, as sync does
upsert_dataframe_deleting(T, primary_key_cols, df, flt, failAt) ==
    LET params == [i \in DOMAIN df |-> fill_null(df[i])]
        where_filter == build_where(flt.sc, flt.sd, flt.ec, flt.ed)
        n == IF failAt = 0 THEN Len(params) ELSE failAt - 1
        merged == ExecuteMany(T, params, n, primary_key_cols, where_filter)
        working == [t \in {x \in BagToSet(merged) :
                             \E i \in DOMAIN params :
                                 MergeOn(primary_key_cols, x, Source(params[i])) = "T"}
                      |-> merged[t]]
    IN  [table |-> EngineBegin(T, working, failAt # 0), raised |-> failAt # 0]

\* upsert_dataframe with a fault: every parameter group committed as it is executed
upsert_dataframe_autocommit(T, primary_key_cols, df, flt, failAt) ==
    LET params == [i \in DOMAIN df |-> fill_null(df[i])]
        where_filter == build_where(flt.sc, flt.sd, flt.ec, flt.ed)
        n == IF failAt = 0 THEN Len(params) ELSE failAt - 1
    IN  [table |-> ExecuteMany(T, params, n, primary_key_cols, where_filter),
         raised |-> failAt # 0]

upsert_dataframe(T, primary_key_cols, df, flt, failAt) ==
    LET params == [i \in DOMAIN df |-> fill_null(df[i])]
        where_filter == build_where(flt.sc, flt.sd, flt.ec, flt.ed)
        n == IF failAt = 0 THEN Len(params) ELSE failAt - 1
        working == ExecuteMany(T, params, n, primary_key_cols, where_filter)
    IN  [table |-> EngineBegin(T, working, failAt # 0), raised |-> failAt # 0]

-----------------------------------------------------------------------------
(* sync_dataframe_to_mssql, util.py 206-316, one operator per               *)
(* transaction scope.                                                        *)

\* 238-283: the MERGE of the upsert phase.  Its text differs from the one of
\* upsert_dataframe in quoting only (names unbracketed, column lists in
\* parentheses, 240-244); a server that rejects the text is the outcome
\* failAt = 1.
SyncMerge(T, primary_key_cols, df, flt, failAt) ==
    LET params == [i \in DOMAIN df |-> fill_null(df[i])]
        where_filter == build_where(flt.sc, flt.sd, flt.ec, flt.ed)
        n == IF failAt = 0 THEN Len(params) ELSE failAt - 1
        working == ExecuteMany(T, params, n, primary_key_cols, where_filter)
    IN  [table |-> EngineBegin(T, working, failAt # 0), raised |-> failAt # 0]

\* 286-295: SELECT primary_key_cols FROM table WHERE 1=1 where_filter; fetchall()
SelectKeys(T, primary_key_cols, flt) ==
    LET where_filter == build_where(flt.sc, flt.sd, flt.ec, flt.ed)
    IN  {[j \in DOMAIN primary_key_cols |-> t[primary_key_cols[j]]] :
            t \in {x \in BagToSet(T) : WhereOn(where_filter, x) = "T"}}

\* 298: set([tuple(i) for i in df[primary_key_cols].values]), the raw values
InputKeys(df, primary_key_cols) ==
    {[j \in DOMAIN primary_key_cols |-> df[i][ColPos(primary_key_cols[j])]] :
        i \in DOMAIN df}

\* ToBeDeleted with a fault: the input's keys are not taken out
ToBeDeleted_all(rows, df, primary_key_cols) == rows

\* 298: to_be_deleted = set(rows) - set(input key tuples)
ToBeDeleted(rows, df, primary_key_cols) ==
    rows \ InputKeys(df, primary_key_cols)

\* 300-308: delete_on_str, k=? AND ..., for one parameter group p
DeleteOn(primary_key_cols, t, p) ==
    And3([j \in DOMAIN primary_key_cols |-> SqlEq(t[primary_key_cols[j]], p[j])])

\* 311-313: DELETE FROM table WHERE delete_on, executed for the groups in done
ExecuteDelete(T, primary_key_cols, done) ==
    DeleteRows(T, {t \in BagToSet(T) :
                       \E p \in done : DeleteOn(primary_key_cols, t, p) = "T"})

-----------------------------------------------------------------------------
(* The caller: inputs and calls *)

KeyRaw == {"1", "2", StrNULL}

DateRaw == {"1", "2", NaN}

DateBounds == {"1", "2"}

RawRows == {<<k, d>> : k \in KeyRaw, d \in DateRaw}

DataFrames == UNION {[1..n -> RawRows] : n \in 1..MaxDf}

NoFilter == [sc |-> None, sd |-> None, ec |-> None, ed |-> None]

FilterArgs ==
    {[sc |-> sc, sd |-> sd, ec |-> ec, ed |-> ed] :
        sc \in {None, "d"}, sd \in DateBounds \cup {None},
        ec \in {None, "d"}, ed \in DateBounds \cup {None}}

\* a bound is given exactly when its column is
Filters == {f \in FilterArgs : (f.sc = None <=> f.sd = None) /\ (f.ec = None <=> f.ed = None)}

NoCall ==
    [op |-> "none", df |-> << >>, flt |-> NoFilter, before |-> EmptyBag,
     outcome |-> "none", failAt |-> 0, phase |-> "none",
     afterUpsert |-> EmptyBag, rows |-> {}, to_be_deleted |-> {}, deletes |-> 0,
     delete_params |-> {},
     rep |-> 0, base |-> EmptyBag, once |-> EmptyBag]

NoFill == [vals |-> << >>, out |-> << >>, called |-> FALSE]

NoFrame == [columns |-> << >>, data |-> << >>]

NoSubset == <<None>>

NoChk ==
    [called |-> FALSE, id_col |-> None, subset |-> NoSubset, sep |-> "-",
     inplace |-> FALSE, before |-> NoFrame, raised |-> "no", ret |-> NoFrame]

Outcome(raised) == IF raised THEN "raised" ELSE "ok"

Init ==
    /\ table = EmptyBag
    /\ pc = "idle"
    /\ call = NoCall
    /\ fill = NoFill
    /\ frame = NoFrame
    /\ chk = NoChk

\* the caller calls upsert_dataframe(engine, table, primary_key_cols, df, filter...)
Upsert ==
    /\ pc = "idle"
    /\ \E df \in DataFrames, flt \in Filters, failAt \in 0..MaxDf :
        /\ failAt <= Len(df)
        /\ LET res == upsert_dataframe(table, PrimaryKeyCols, df, flt, failAt)
           IN  /\ BagCardinality(res.table) <= MaxTableRows
               /\ table' = res.table
               /\ call' = [NoCall EXCEPT !.op = "upsert", !.df = df, !.flt = flt,
                              !.before = table, !.outcome = Outcome(res.raised),
                              !.failAt = failAt, !.phase = "upsert",
                              !.rep = 1, !.base = table, !.once = res.table]
    /\ pc' = "returned"
    /\ UNCHANGED <<fill, frame, chk>>

\* the caller applies the same upsert again
UpsertAgain ==
    /\ pc = "returned"
    /\ call.op = "upsert"
    /\ call.outcome = "ok"
    /\ call.rep < MaxRepeat
    /\ \E failAt \in 0..MaxDf :
        /\ failAt <= Len(call.df)
        /\ LET res == upsert_dataframe(table, PrimaryKeyCols, call.df, call.flt, failAt)
           IN  /\ BagCardinality(res.table) <= MaxTableRows
               /\ table' = res.table
               /\ call' = [call EXCEPT !.before = table, !.outcome = Outcome(res.raised),
                              !.failAt = failAt, !.rep = @ + 1]
    /\ pc' = "returned"
    /\ UNCHANGED <<fill, frame, chk>>

\* sync_dataframe_to_mssql, first transaction scope (279-283)
SyncUpsert ==
    /\ pc = "idle"
    /\ \E df \in DataFrames, flt \in Filters, failAt \in 0..MaxDf :
        /\ failAt <= Len(df)
        /\ LET res == SyncMerge(table, PrimaryKeyCols, df, flt, failAt)
           IN  /\ BagCardinality(res.table) <= MaxTableRows
               /\ table' = res.table
               /\ call' = [NoCall EXCEPT !.op = "sync", !.df = df, !.flt = flt,
                              !.before = table,
                              !.outcome = IF res.raised THEN "raised" ELSE "running",
                              !.failAt = failAt, !.phase = "upsert",
                              !.afterUpsert = res.table]
               /\ pc' = IF res.raised THEN "returned" ELSE "select"
    /\ UNCHANGED <<fill, frame, chk>>

\* second transaction scope (292-296), then the set difference (298-299, 315-316)
SyncSelect ==
    /\ pc = "select"
    /\ \E raised \in BOOLEAN :
        IF raised
        THEN /\ call' = [call EXCEPT !.outcome = "raised", !.phase = "select"]
             /\ pc' = "returned"
        ELSE LET rows == SelectKeys(table, PrimaryKeyCols, call.flt)
                 to_be_deleted == ToBeDeleted(rows, call.df, PrimaryKeyCols)
             IN  /\ call' = [call EXCEPT !.phase = "select", !.rows = rows,
                                !.to_be_deleted = to_be_deleted,
                                !.outcome = IF Cardinality(to_be_deleted) > 0
                                            THEN "running" ELSE "ok"]
                 /\ pc' = IF Cardinality(to_be_deleted) > 0 THEN "delete" ELSE "returned"
    /\ UNCHANGED <<table, fill, frame, chk>>

\* third transaction scope (311-314): the groups in done executed, then either
\* all are done or the next one raises
SyncDelete ==
    /\ pc = "delete"
    /\ \E done \in SUBSET call.to_be_deleted :
        LET raised == done # call.to_be_deleted
            working == ExecuteDelete(table, PrimaryKeyCols, done)
        IN  /\ table' = EngineBegin(table, working, raised)
            /\ call' = [call EXCEPT !.phase = "delete", !.deletes = 1,
                           !.delete_params = done, !.outcome = Outcome(raised)]
    /\ pc' = "returned"
    /\ UNCHANGED <<fill, frame, chk>>

\* the caller has seen the result
Return ==
    /\ pc = "returned"
    /\ pc' = "idle"
    /\ call' = NoCall
    /\ UNCHANGED <<table, fill, frame, chk>>

Next == Upsert \/ SyncUpsert \/ SyncSelect \/ SyncDelete \/ Return

Spec == Init /\ [][Next]_vars

\* upsert_dataframe applied to an empty table, then applied again
NextIdem == Upsert \/ UpsertAgain

SpecIdem == Init /\ [][NextIdem]_vars

-----------------------------------------------------------------------------
(* fill_null as a caller sees it *)

PyVals == {"1", "2", "1.5", StrNULL, Strnan, Strnull, NaN, NA, None}

InitFill ==
    /\ table = EmptyBag
    /\ pc = "idle"
    /\ call = NoCall
    /\ fill = NoFill
    /\ frame = NoFrame
    /\ chk = NoChk

\* the caller builds the argument list
FillAppend ==
    /\ ~fill.called
    /\ Len(fill.vals) < MaxLen
    /\ \E v \in PyVals : fill' = [fill EXCEPT !.vals = Append(@, v)]
    /\ UNCHANGED <<table, pc, call, frame, chk>>

\* fill_null(vals)
FillNull ==
    /\ ~fill.called
    /\ fill' = [fill EXCEPT !.out = fill_null(fill.vals), !.called = TRUE]
    /\ UNCHANGED <<table, pc, call, frame, chk>>

\* the caller starts the next argument list
FillNext ==
    /\ fill.called
    /\ fill' = NoFill
    /\ UNCHANGED <<table, pc, call, frame, chk>>

NextFill == FillAppend \/ FillNull \/ FillNext

SpecFill == InitFill /\ [][NextFill]_vars

-----------------------------------------------------------------------------
(* add_checksum_column, util.py 10-106.  A DataFrame is its column labels   *)
(* and its rows, each row aligned with the labels.                           *)

Range(s) == {s[i] : i \in DOMAIN s}

\* bool(x) of a column label or None: '' and 0 are false
Truthy(x) == x \notin {None, "''", "0"}

\* str(x) of an encoded value
Str(v) ==
    CASE v = "'x'" -> "x" [] v = "'y'" -> "y" [] v = StrNULL -> "NULL"
      [] v = NaN -> "nan" [] OTHER -> v

\* hashlib.md5(s.encode("utf-8")).hexdigest(), kept symbolic
Md5(s) == "md5(" \o s \o ")"

RECURSIVE Join(_)
Join(strs) == IF strs = << >> THEN "" ELSE Head(strs) \o Join(Tail(strs))

PosOf(columns, label) == CHOOSE i \in DOMAIN columns : columns[i] = label

Cell(f, r, label) == f.data[r][PosOf(f.columns, label)]

\* f[label] = values: the column overwritten, or added as the last one
SetColumn(f, label, values) ==
    IF label \in Range(f.columns)
    THEN [f EXCEPT !.data = [r \in DOMAIN f.data |->
                [f.data[r] EXCEPT ![PosOf(f.columns, label)] = values[r]]]]
    ELSE [columns |-> Append(f.columns, label),
          data |-> [r \in DOMAIN f.data |-> Append(f.data[r], values[r])]]

add_checksum_column(self, id_col, subset, sep, inplace) ==
    LET subset1 == IF subset = NoSubset THEN self.columns ELSE subset
        diff == Range(subset1) \ Range(self.columns)
    IN  IF diff # {}
        THEN [raised |-> "KeyError", self |-> self, ret |-> NoFrame]
        ELSE IF Truthy(id_col) /\ ~(id_col \in Range(self.columns))
        THEN [raised |-> "KeyError", self |-> self, ret |-> NoFrame]
        ELSE LET digest == [r \in DOMAIN self.data |->
                     Md5(Join([j \in DOMAIN subset1 |-> Str(Cell(self, r, subset1[j]))]))]
                 result1 == SetColumn(self, "'row_checksum'", digest)
                 result == IF Truthy(id_col)
                           THEN SetColumn(result1, "'row_checksum'",
                                   [r \in DOMAIN result1.data |->
                                       Str(Cell(result1, r, id_col)) \o sep
                                           \o Cell(result1, r, "'row_checksum'")])
                           ELSE result1
             IN  IF inplace
                 THEN [raised |-> "no", self |-> result, ret |-> NoFrame]
                 ELSE [raised |-> "no", self |-> self, ret |-> result]

ChkColumnLists == {<<"'a'">>, <<"'a'", "'b'">>, <<"0", "'a'">>, <<"''", "'a'">>}

ChkCells == {"1", "'x'"}

Frames ==
    {[columns |-> c, data |-> d] :
        c \in ChkColumnLists,
        d \in UNION {[1..n -> UNION {[1..m -> ChkCells] : m \in 1..2}] : n \in 1..MaxChkRows}}

\* the rows of a DataFrame are as long as its column list
WellFormed(f) == \A r \in DOMAIN f.data : Len(f.data[r]) = Len(f.columns)

ChkIdCols == {None, "'a'", "'z'", "0", "''"}

ChkSubsets == {NoSubset, <<"'a'">>, <<"'b'">>, <<"'a'", "'z'">>, <<"'b'", "'a'">>}

InitChk ==
    /\ table = EmptyBag
    /\ pc = "idle"
    /\ call = NoCall
    /\ fill = NoFill
    /\ frame \in {f \in Frames : WellFormed(f)}
    /\ chk = NoChk

\* add_checksum_column(frame, id_col, subset, sep, inplace)
AddChecksum ==
    /\ ~chk.called
    /\ \E id_col \in ChkIdCols, subset \in ChkSubsets, sep \in {"-", "#"},
          inplace \in BOOLEAN :
        LET res == add_checksum_column(frame, id_col, subset, sep, inplace)
        IN  /\ frame' = res.self
            /\ chk' = [called |-> TRUE, id_col |-> id_col, subset |-> subset,
                       sep |-> sep, inplace |-> inplace, before |-> frame,
                       raised |-> res.raised, ret |-> res.ret]
    /\ UNCHANGED <<table, pc, call, fill>>

\* the caller builds the next DataFrame
ChkNext ==
    /\ chk.called
    /\ frame' \in {f \in Frames : WellFormed(f)}
    /\ chk' = NoChk
    /\ UNCHANGED <<table, pc, call, fill>>

NextChk == AddChecksum \/ ChkNext

SpecChk == InitChk /\ [][NextChk]_vars

-----------------------------------------------------------------------------
(* Properties.  What follows states the claims; it models no code.          *)

\* the value a raw input value is bound as
Bound(v) == IF v \in {StrNULL, Strnan, NaN, NA} THEN None ELSE v

\* the row an input row is bound as
BoundRow(raw) == [c \in ColSet |-> Bound(raw[ColPos(c)])]

\* the key-column tuple of a table row
KeyOf(t) == [j \in DOMAIN PrimaryKeyCols |-> t[PrimaryKeyCols[j]]]

TableKeys(T) == {KeyOf(t) : t \in BagToSet(T)}

BoundKeys(df) == {KeyOf(BoundRow(df[i])) : i \in DOMAIN df}

RawKeys(df) == {[j \in DOMAIN PrimaryKeyCols |-> df[i][ColPos(PrimaryKeyCols[j])]] : i \in DOMAIN df}

HasNullKey(t) == \E j \in DOMAIN PrimaryKeyCols : t[PrimaryKeyCols[j]] = None

Filtered(flt) == flt.sc # None \/ flt.ec # None

\* the filter column values of row t lie in the configured inclusive range
InRange(t, flt) ==
    /\ flt.sc # None => (t[flt.sc] # None /\ Ord(t[flt.sc]) >= Ord(flt.sd))
    /\ flt.ec # None => (t[flt.ec] # None /\ Ord(t[flt.ec]) <= Ord(flt.ed))

Returned(op) == pc = "returned" /\ call.op = op

\* C1: after sync_dataframe_to_mssql without a range filter returns normally,
\* the key tuples of the target table are exactly the key tuples of the input
\* rows (as bound).
C1_SyncCompleteness ==
    (Returned("sync") /\ call.outcome = "ok" /\ ~Filtered(call.flt))
        => TableKeys(table) = BoundKeys(call.df)

\* C2: after upsert_dataframe without a range filter returns normally, input
\* keys distinct: every input row whose key tuple a target row had is now what
\* every target row of that key holds, and every other input row is in the table,
\* NULL columns included.
C2_UpsertAppliesEveryRow ==
    (/\ Returned("upsert") /\ call.outcome = "ok" /\ ~Filtered(call.flt)
     /\ Cardinality(BoundKeys(call.df)) = Len(call.df))
        => \A i \in DOMAIN call.df :
              LET r == BoundRow(call.df[i])
              IN  IF \E t \in BagToSet(call.before) : KeyOf(t) = KeyOf(r)
                  THEN \A t \in BagToSet(table) : KeyOf(t) = KeyOf(r) => t = r
                  ELSE r \in BagToSet(table)

C3_WitnessUpsert ==
    /\ Returned("upsert") /\ call.outcome = "ok" /\ Filtered(call.flt)
    /\ table # call.before
    /\ \E t \in BagToSet(call.before) :
          /\ ~InRange(t, call.flt) /\ ~HasNullKey(t)
          /\ KeyOf(t) \in BoundKeys(call.df)
          /\ \A i \in DOMAIN call.df : BoundRow(call.df[i]) # t

\* C4: upsert_dataframe applied twice with the same rows to an empty table
\* leaves the table as one application left it.
C4_UpsertIdempotent ==
    (/\ Returned("upsert") /\ call.outcome = "ok" /\ call.rep = 2
     /\ call.base = EmptyBag)
        => table = call.once

\* C5: fill_null returns a tuple as long as its argument, with None where the
\* argument holds 'NULL', 'nan', a float NaN or pd.NA, and the argument's value
\* everywhere else ('null' included).
C5_FillNull ==
    fill.called
        => /\ Len(fill.out) = Len(fill.vals)
           /\ \A i \in DOMAIN fill.vals :
                 fill.out[i] = IF fill.vals[i] \in {StrNULL, Strnan, NaN, NA}
                               THEN None ELSE fill.vals[i]

\* C5 witness: a call whose argument holds a float NaN, the str 'null' and pd.NA.
C5_Witness ==
    /\ fill.called
    /\ \E i, j, k \in DOMAIN fill.vals :
          /\ fill.vals[i] = NaN /\ fill.out[i] = None
          /\ fill.vals[j] = Strnull /\ fill.out[j] = Strnull
          /\ fill.vals[k] = NA /\ fill.out[k] = None

\* C6: a call of add_checksum_column whose subset names an absent column, or
\* whose id_col is given and names an absent column, raises KeyError and leaves
\* the DataFrame as it was.
C6_MissingColumnFails ==
    (/\ chk.called
     /\ \/ chk.subset # NoSubset /\ ~(Range(chk.subset) \subseteq Range(chk.before.columns))
        \/ chk.id_col # None /\ ~(chk.id_col \in Range(chk.before.columns)))
        => chk.raised = "KeyError" /\ frame = chk.before

\* C7: upsert_dataframe deletes nothing: every target row whose key tuple is the
\* key tuple of no input row is still there unchanged, and the table has at
\* least as many rows as before.
C7_UpsertNeverDeletes ==
    Returned("upsert")
        => /\ \A t \in BagToSet(call.before) :
                 ~(KeyOf(t) \in BoundKeys(call.df))
                     => CopiesIn(t, table) >= CopiesIn(t, call.before)
           /\ BagCardinality(table) >= BagCardinality(call.before)

\* C7 witness: an upsert that inserted and updated while a row of another key
\* was in the table.
C7_Witness ==
    /\ Returned("upsert") /\ call.outcome = "ok"
    /\ BagCardinality(table) > BagCardinality(call.before)
    /\ \E t \in BagToSet(call.before) : ~(t \in BagToSet(table))
    /\ \E t \in BagToSet(call.before) : ~(KeyOf(t) \in BoundKeys(call.df))

\* C8: when the SELECT or the DELETE of a sync raises, the caller sees the
\* error, the table is as the committed upsert phase left it, and no row has
\* been deleted.
C8_SyncNotAtomic ==
    (Returned("sync") /\ call.phase \in {"select", "delete"} /\ call.outcome # "ok")
        => /\ call.outcome = "raised"
           /\ table = call.afterUpsert
           /\ BagCardinality(table) >= BagCardinality(call.before)
           /\ ~Filtered(call.flt) => BoundKeys(call.df) \subseteq TableKeys(table)

\* C8 witness: the DELETE raised after the upsert phase had changed the table and
\* with two stale keys to delete.
C8_Witness ==
    /\ Returned("sync") /\ call.phase = "delete" /\ call.outcome = "raised"
    /\ call.afterUpsert # call.before
    /\ Cardinality(call.to_be_deleted) >= 2

\* C9: when the execution of any parameter group of upsert_dataframe raises, the
\* caller sees the error and the table is as it was before the call.
C9_UpsertAllOrNothing ==
    (Returned("upsert") /\ call.failAt # 0)
        => call.outcome = "raised" /\ table = call.before

\* C9 witness: the second parameter group raised after the first one had
\* changed the table inside the transaction.
C9_Witness ==
    /\ Returned("upsert") /\ call.outcome = "raised" /\ call.failAt = 2
    /\ MergeOne(call.before, fill_null(call.df[1]), PrimaryKeyCols,
                build_where(call.flt.sc, call.flt.sd, call.flt.ec, call.flt.ed))
          # call.before

C10_WitnessNothing ==
    /\ Returned("sync") /\ call.outcome = "ok" /\ call.deletes = 0
    /\ call.before # EmptyBag

====
